---- MODULE Spec2Model ----
(***************************************************************************)
(* The MySQL store that scripts/init_database.py creates, and the          *)
(* operations that run against it.                                         *)
(*                                                                         *)
(* The schema (tables, unique keys, enum columns and their defaults,       *)
(* foreign keys and their ON DELETE rules), the bootstrap functions and    *)
(* main are translated from init_database.py.  The pipeline operations     *)
(* (upsert_channel, record_stats, schedule, complete, the task lifecycle,  *)
(* acquire, record_usage) have no code in the repository: they are         *)
(* modelled from the specification's contracts, as clients that send SQL   *)
(* statements to the store, and the store answers as the schema dictates.  *)
(***************************************************************************)
EXTENDS Integers, Sequences, FiniteSets, TLC

VARIABLES
    \* ---- the MySQL server (init_database.py) ----
    database,            \* BOOLEAN: the database exists
    tables,              \* set of table names that exist
    fks,                 \* set of foreign-key constraint names that exist
    product_config,      \* rows of product_config
    schema_migrations,   \* set of version numbers in schema_migrations
    auto_inc,            \* table name -> next AUTO_INCREMENT id
    \* ---- one run of main() ----
    pc,                  \* position of main
    connected,           \* BOOLEAN: the connection is open
    exit_status,         \* exit status of the last finished run ("none" before)
    success_logged,      \* BOOLEAN: the last or current run logged success
    runs,                \* number of runs of main that have ended
    sql_faults,          \* BOOLEAN: some statement raised an unexpected Error
    failed_table,        \* the table whose CREATE TABLE raised in the current or
                         \*   last run of main (NULL: none did)
    \* ---- rows of the pipeline tables ----
    search_tasks,        \* set of rows
    channels,            \* set of rows
    channel_video_stats, \* set of rows
    ai_analysis,         \* set of rows
    api_keys,            \* set of rows
    exhausted,           \* the keys marked exhausted for the rest of their day
    \* ---- clients of the store ----
    now,                 \* the clock (timestamps)
    today,               \* the current date
    proc,                \* client process -> its call in progress or last call
    upserted,            \* channel_id -> the latest discovery time among the
                         \*   upsert_channel calls that have returned (0: none)
    \* ---- one run of main() of test_apis.py ----
    args,                \* the parsed command line
    results,             \* the results dict: test name -> BOOLEAN
    smoke_pc,            \* position of main
    youtube,             \* what the call of test_youtube_api did and returned
    smoke_exit,          \* exit status of the process ("none" while it runs)
    escaped              \* the test function whose exception reached main
                         \*   (NULL: none)

bootVars  == <<database, tables, fks, product_config, schema_migrations,
               pc, connected, exit_status, success_logged, runs, sql_faults,
               failed_table>>
smokeVars == <<args, results, smoke_pc, youtube, smoke_exit, escaped>>
rowVars   == <<search_tasks, channels, channel_video_stats, ai_analysis>>
vars == <<database, tables, fks, product_config, schema_migrations, auto_inc,
          pc, connected, exit_status, success_logged, runs, sql_faults,
          failed_table,
          search_tasks, channels, channel_video_stats, ai_analysis, api_keys, exhausted,
          now, today, proc, upserted,
          args, results, smoke_pc, youtube, smoke_exit, escaped>>

----------------------------------------------------------------------------
(* Bounds of the model *)

MaxRuns == 2          \* runs of main against the same server
MaxRowId == 2         \* AUTO_INCREMENT ids handed out per table
MaxTime == 3          \* the clock stops here
MaxScore == 2         \* relevance scores are 1..MaxScore
MaxCost == 2          \* a call costs 1..MaxCost quota units
MaxDay == 2           \* the calendar stops here

TaskIdSet == {"t1", "t2"}       \* task_id values (UUIDs)
ChannelIdSet == {"c1", "c2"}    \* channel_id values
Procs == {"p1", "p2"}           \* concurrent clients of the store

NULL == "NULL"

----------------------------------------------------------------------------
(* The schema: init_database.py, create_tables and add_foreign_keys *)

\* tables.items() in insertion order
TableOrder == <<"search_tasks", "channels", "channel_video_stats",
                "ai_analysis", "api_keys", "product_config">>

AllTables == {TableOrder[i] : i \in 1..Len(TableOrder)}

\* the constraints list of add_foreign_keys, in order
Constraints == <<"fk_parent_task", "fk_stats_channel", "fk_stats_task",
                 "fk_analysis_channel", "fk_analysis_task">>

AllFKs == {Constraints[i] : i \in 1..Len(Constraints)}

\* the versions of INSERT IGNORE INTO schema_migrations
MigrationVersions == {1, 2, 3, 4}

SeedProductName == "WMaster Cleanup"

\* The unique keys of product_config other than the AUTO_INCREMENT id: none.
UniqueKeys_product_config == {}

\* the tables whose rows the model identifies by their AUTO_INCREMENT id
AutoIncTables == {"product_config", "channel_video_stats", "ai_analysis"}

\* a slip in the column default
DefaultTaskStatus_Running == "running"

\* search_tasks.status ENUM(...) DEFAULT 'pending'
TaskStatus == {"pending", "running", "completed", "failed", "paused"}
DefaultTaskStatus == "pending"

\* a slip in the column default
DefaultAnalysisStatus_Processing == "processing"

\* api_keys.api_type ENUM('youtube', 'deepseek', 'zhipu')
ApiTypes == {"youtube", "deepseek", "zhipu"}

\* ai_analysis.analysis_status ENUM(...) DEFAULT 'pending'
AnalysisStatus == {"pending", "processing", "completed", "failed"}
DefaultAnalysisStatus == "pending"

\* task_id VARCHAR(64) UNIQUE NOT NULL
Duplicate_search_tasks(rows, r) == \E x \in rows : x.task_id = r.task_id

\* channels declared without the unique key on channel_id
Duplicate_channels_None(rows, r) == FALSE

\* channel_id VARCHAR(64) UNIQUE NOT NULL
Duplicate_channels(rows, r) == \E x \in rows : x.channel_id = r.channel_id

\* channel_video_stats: id INT PRIMARY KEY AUTO_INCREMENT, and
\* INDEX idx_channel_task (channel_id, task_id), which is not a unique key
Duplicate_channel_video_stats(rows, r) == \E x \in rows : x.id = r.id

\* ai_analysis declared like channel_video_stats, with a plain INDEX
Duplicate_ai_analysis_IdOnly(rows, r) == \E x \in rows : x.id = r.id

\* ai_analysis: id INT PRIMARY KEY AUTO_INCREMENT, and
\* UNIQUE KEY uk_channel_task (channel_id, task_id)
Duplicate_ai_analysis(rows, r) ==
    \E x \in rows : \/ x.id = r.id
                    \/ (x.channel_id = r.channel_id /\ x.task_id = r.task_id)

----------------------------------------------------------------------------
(* The bootstrap functions *)

\* a slip in the loop of create_tables: the handler logs the Error without
\* re-raising it, and every other table is created
TablesCreated_All(failAt, applied) ==
    {TableOrder[i] : i \in (1..Len(TableOrder)) \ (IF applied THEN {} ELSE {failAt})}

\* create_tables: CREATE TABLE IF NOT EXISTS for each table in order; the
\* statement of table number failAt raises (0: none does), and the loop
\* re-raises, so the tables before it exist afterwards.  CREATE TABLE
\* commits by itself: the server may have created the table of the statement
\* that raised (applied: the Error is that of a lost answer) or not.
TablesCreated(failAt, applied) ==
    {TableOrder[i] : i \in 1..(IF failAt = 0 THEN Len(TableOrder)
                               ELSE IF applied THEN failAt ELSE failAt - 1)}

\* INSERT INTO product_config ... ON DUPLICATE KEY UPDATE updated_at = ...:
\* a row is a duplicate only if it collides on a unique key of the table; the
\* id is generated, so only the other unique keys can collide.
SeedCollides(rows) ==
    /\ "product_name" \in UniqueKeys_product_config
    /\ \E r \in rows : r.product_name = SeedProductName

SeedInsert(rows, id) ==
    IF SeedCollides(rows)
    THEN rows
    ELSE rows \cup {[id |-> id, product_name |-> SeedProductName, is_active |-> 1]}

\* INSERT IGNORE INTO schema_migrations: version is the primary key
MigrationsInsert(rows) == rows \cup MigrationVersions

----------------------------------------------------------------------------
(* Foreign keys: what each constraint requires of the rows *)

TaskIds(tasks) == {r.task_id : r \in tasks}
ChannelIds(chans) == {r.channel_id : r \in chans}

FKHolds(f, tasks, chans, stats, analysis) ==
    CASE f = "fk_parent_task" ->
           \A r \in tasks : r.parent_task_id = NULL \/ r.parent_task_id \in TaskIds(tasks)
      [] f = "fk_stats_channel" ->
           \A r \in stats : r.channel_id \in ChannelIds(chans)
      [] f = "fk_stats_task" ->
           \A r \in stats : r.task_id \in TaskIds(tasks)
      [] f = "fk_analysis_channel" ->
           \A r \in analysis : r.channel_id \in ChannelIds(chans)
      [] f = "fk_analysis_task" ->
           \A r \in analysis : r.task_id \in TaskIds(tasks)

\* add_foreign_keys: each ALTER TABLE ... ADD CONSTRAINT in turn.  A constraint
\* that exists raises a Duplicate error (ignored); one whose statement raises
\* any other Error (errs: the server refuses it; or the rows already break it)
\* is logged as a warning.  Neither stops the loop, and nothing is re-raised.
ForeignKeysAdded(errs) ==
    fks \cup {f \in AllFKs : /\ f \notin errs
                             /\ FKHolds(f, search_tasks, channels,
                                        channel_video_stats, ai_analysis)}

----------------------------------------------------------------------------
(* main of init_database.py, one step per function it calls *)

\* the except Error handler (sys.exit(1)) and the finally block of main
MainFails ==
    /\ pc' = "idle"
    /\ connected' = FALSE
    /\ exit_status' = "1"
    /\ success_logged' = FALSE
    /\ runs' = runs + 1
    /\ sql_faults' = TRUE

MainContinues(next) ==
    /\ pc' = next
    /\ UNCHANGED <<connected, exit_status, success_logged, runs, sql_faults>>

\* the process ends without an Error and without the success message:
\* status is its exit status
MainEnds(status) ==
    /\ pc' = "idle"
    /\ connected' = FALSE
    /\ exit_status' = status
    /\ success_logged' = FALSE
    /\ runs' = runs + 1
    /\ UNCHANGED sql_faults

\* what parser.parse_args() does with the command line: it returns the
\* arguments, or prints the help and exits with status 0 (--help), or
\* rejects the command line and exits with status 2 (--password is
\* required)
CommandLines == {"ok", "help", "rejected"}

\* the start of main: parser.parse_args()
ParseArguments(line) ==
    /\ pc = "idle"
    /\ runs < MaxRuns
    /\ IF line = "ok"
       THEN /\ pc' = "connect"
            /\ exit_status' = "none"
            /\ success_logged' = FALSE
            /\ UNCHANGED <<connected, runs, sql_faults>>
       ELSE MainEnds(IF line = "help" THEN "0" ELSE "2")
    /\ failed_table' = NULL
    /\ UNCHANGED <<database, tables, fks, product_config, schema_migrations,
                   auto_inc, rowVars, api_keys, exhausted, now, today, proc, upserted,
                   smokeVars>>

\* what mysql.connector.connect(...) does: it returns an open connection, or
\* raises an Error, or returns a connection whose is_connected() is False
Connections == {"open", "Error", "not_connected"}

\* mysql.connector.connect(...) and if connection.is_connected(): with a
\* connection that is not connected main skips to the finally block, which
\* has nothing to close, and the process exits with status 0
Connect(conn) ==
    /\ pc = "connect"
    /\ CASE conn = "open" ->
              /\ pc' = "create_database"
              /\ connected' = TRUE
              /\ UNCHANGED <<exit_status, success_logged, runs, sql_faults>>
         [] conn = "Error" -> MainFails
         [] conn = "not_connected" -> MainEnds("0")
    /\ UNCHANGED failed_table
    /\ UNCHANGED <<database, tables, fks, product_config, schema_migrations,
                   auto_inc, rowVars, api_keys, exhausted, now, today, proc, upserted,
                   smokeVars>>

\* create_database, then connection.database = args.database (USE).
\* step: "create" (connection.cursor() or the CREATE DATABASE IF NOT EXISTS
\* raises; the Error is logged and re-raised), "use" (the database is
\* created and the USE raises), "ok"
CreateDatabase(step) ==
    /\ pc = "create_database"
    /\ database' = IF step = "create" THEN database ELSE TRUE
    /\ IF step = "ok"
       THEN MainContinues("create_tables")
       ELSE MainFails
    /\ UNCHANGED <<failed_table, tables, fks, product_config, schema_migrations,
                   auto_inc, rowVars, api_keys, exhausted, now, today, proc, upserted,
                   smokeVars>>

\* create_tables: connection.cursor() raises (cursor FALSE: no statement is
\* sent), or the statement of table number failAt raises (0: none), with
\* its table created on the server (applied) or not; the handler of the loop
\* logs the table's name and re-raises
CreateTables(cursor, failAt, applied) ==
    /\ pc = "create_tables"
    /\ failAt = 0 => ~applied
    /\ tables' = IF cursor THEN tables \cup TablesCreated(failAt, applied) ELSE tables
    /\ failed_table' = IF cursor /\ failAt # 0 THEN TableOrder[failAt] ELSE NULL
    /\ IF cursor /\ failAt = 0
       THEN MainContinues("add_foreign_keys")
       ELSE MainFails
    /\ UNCHANGED <<database, fks, product_config, schema_migrations,
                   auto_inc, rowVars, api_keys, exhausted, now, today, proc, upserted,
                   smokeVars>>

\* the constraints whose ALTER makes add_foreign_keys log 'Constraint
\* warning': the statement raises an Error other than Duplicate, be the
\* constraint there already or not, or the constraint is new and the rows
\* break it
ConstraintWarnings(errs) ==
    errs \cup {f \in AllFKs \ fks :
                  ~FKHolds(f, search_tasks, channels,
                           channel_video_stats, ai_analysis)}

\* add_foreign_keys: connection.cursor() raises (cursor FALSE: the Error
\* reaches main's handler), or the statements of the constraints in errs
\* raise an Error other than Duplicate; the function returns normally all
\* the same
AddForeignKeys(cursor, errs) ==
    /\ pc = "add_foreign_keys"
    /\ IF cursor
       THEN /\ fks' = ForeignKeysAdded(errs)
            /\ pc' = "seed_initial_data"
            /\ sql_faults' = (sql_faults \/ ConstraintWarnings(errs) # {})
            /\ UNCHANGED <<connected, exit_status, success_logged, runs>>
       ELSE UNCHANGED fks /\ MainFails
    /\ UNCHANGED failed_table
    /\ UNCHANGED <<database, tables, product_config, schema_migrations,
                   auto_inc, rowVars, api_keys, exhausted, now, today, proc, upserted,
                   smokeVars>>

\* what a statement that main does not guard does: it succeeds, or raises
\* an Error that reaches main's handler.  A commit that raises has taken
\* effect ("Error_applied": the answer of the server was lost) or has not
\* ("Error": the transaction is rolled back when the connection closes).
CommitOutcomes == {"ok", "Error", "Error_applied"}

\* seed_initial_data.  cursor FALSE: connection.cursor() raises.  insert
\* FALSE: the INSERT raises, which is logged as a warning.
\* connection.commit() follows either way; its Error is not caught.
SeedInitialData(cursor, insert, commit) ==
    /\ pc = "seed_initial_data"
    /\ IF cursor /\ insert
       THEN auto_inc' = [auto_inc EXCEPT !["product_config"] = @ + 1]
       ELSE UNCHANGED auto_inc
    /\ IF cursor /\ insert /\ commit # "Error"
       THEN product_config' = SeedInsert(product_config, auto_inc["product_config"])
       ELSE UNCHANGED product_config
    /\ IF cursor /\ commit = "ok"
       THEN /\ pc' = "create_schema_version_table"
            /\ sql_faults' = (sql_faults \/ ~insert)
            /\ UNCHANGED <<connected, exit_status, success_logged, runs>>
       ELSE MainFails
    /\ UNCHANGED failed_table
    /\ UNCHANGED <<database, tables, fks, schema_migrations,
                   rowVars, api_keys, exhausted, now, today, proc, upserted,
                   smokeVars>>

\* the steps of create_schema_version_table at which an Error can be raised
SchemaVersionSteps == {"create", "insert", "commit", "commit_applied", "ok"}

\* create_schema_version_table, then the success message of main, then its
\* finally block.  An Error of any statement reaches main's handler.
\* step: "create" (connection.cursor() or the CREATE TABLE raises), "insert"
\* (the INSERT IGNORE raises), "commit" (connection.commit() raises and the
\* rows are rolled back), "commit_applied" (it raises and the rows are
\* there), "ok"
CreateSchemaVersionTable(step) ==
    /\ pc = "create_schema_version_table"
    /\ tables' = IF step = "create" THEN tables ELSE tables \cup {"schema_migrations"}
    /\ schema_migrations' = IF step \in {"ok", "commit_applied"}
                            THEN MigrationsInsert(schema_migrations)
                            ELSE schema_migrations
    /\ IF step = "ok"
       THEN /\ pc' = "idle"
            /\ success_logged' = TRUE
            /\ connected' = FALSE
            /\ exit_status' = "0"
            /\ runs' = runs + 1
            /\ UNCHANGED sql_faults
       ELSE MainFails
    /\ UNCHANGED <<failed_table, database, fks, product_config,
                   auto_inc, rowVars, api_keys, exhausted, now, today, proc, upserted,
                   smokeVars>>

NextBootstrap ==
    \/ \E line \in CommandLines : ParseArguments(line)
    \/ \E conn \in Connections : Connect(conn)
    \/ \E step \in {"create", "use", "ok"} : CreateDatabase(step)
    \/ \E cursor, applied \in BOOLEAN, failAt \in 0..Len(TableOrder) :
          CreateTables(cursor, failAt, applied)
    \/ \E cursor \in BOOLEAN, errs \in SUBSET AllFKs : AddForeignKeys(cursor, errs)
    \/ \E cursor, insert \in BOOLEAN, commit \in CommitOutcomes :
          SeedInitialData(cursor, insert, commit)
    \/ \E step \in SchemaVersionSteps : CreateSchemaVersionTable(step)

\* test_apis.py has not been started: no command line, an empty results
\* dict, no call of test_youtube_api
NoArgs == [youtube_key |-> NULL, ai_provider |-> NULL, ai_key |-> NULL,
           all |-> FALSE]
NotCalled == [ret |-> NULL, called |-> {}, items |-> {}]

InitSmoke ==
    /\ args = NoArgs
    /\ results = <<>>
    /\ smoke_pc = "start"
    /\ youtube = NotCalled
    /\ smoke_exit = "none"
    /\ escaped = NULL

\* a MySQL server on which the bootstrap has never run
InitFresh ==
    /\ database = FALSE
    /\ tables = {}
    /\ fks = {}
    /\ product_config = {}
    /\ schema_migrations = {}
    /\ auto_inc = [t \in AutoIncTables |-> 1]
    /\ pc = "idle"
    /\ connected = FALSE
    /\ exit_status = "none"
    /\ success_logged = FALSE
    /\ runs = 0
    /\ sql_faults = FALSE
    /\ failed_table = NULL
    /\ search_tasks = {}
    /\ channels = {}
    /\ channel_video_stats = {}
    /\ ai_analysis = {}
    /\ api_keys = {}
    /\ exhausted = {}
    /\ now = 1
    /\ today = 1
    /\ proc = <<>>
    /\ upserted = <<>>
    /\ InitSmoke

SpecBootstrap == InitFresh /\ [][NextBootstrap]_vars

----------------------------------------------------------------------------
(* Claims about the bootstrap *)

SeedRows == {r \in product_config : r.product_name = SeedProductName}

\* the bootstrap has run to its success message at least once, and no
\* statement of any run raised an unexpected Error
RanCleanly ==
    /\ pc = "idle" /\ runs >= 1 /\ ~sql_faults
    /\ exit_status = "0" /\ success_logged

\* C1: the bootstrap is idempotent -- after any number n >= 1 of full runs
\* (create_database, create_tables, add_foreign_keys, seed_initial_data,
\* create_schema_version_table) the store is as after one run; in particular
\* product_config holds exactly one seed row.
C1_OneSeedRow == RanCleanly => Cardinality(SeedRows) = 1

\* C11: whenever main has logged 'Database initialization completed
\* successfully', all five foreign-key constraints (fk_parent_task,
\* fk_stats_channel, fk_stats_task, fk_analysis_channel, fk_analysis_task)
\* exist in the store.
C11_SuccessImpliesForeignKeys == success_logged => fks = AllFKs

\* the tables that come before table t in the order of create_tables
TablesBefore(t) ==
    {TableOrder[j] : j \in {i \in 1..Len(TableOrder) :
                                \E k \in (i + 1)..Len(TableOrder) : TableOrder[k] = t}}

\* the run in which the creation of a table failed is over: it logged no
\* success, its connection is closed, and the process exited with status 1
AbortedRunIsOver ==
    failed_table # NULL =>
        /\ pc = "idle"
        /\ ~success_logged
        /\ ~connected
        /\ exit_status = "1"

\* the step in which the creation of a table fails leaves the tables before
\* it created, creates no table that comes after it (the table of the failing
\* statement itself exists if the server created it before the Error
\* reached the client), drops none, and writes no foreign key, seed row or
\* migration row; nor does any later step of that run create or write
\* anything
AbortsAtFailedTable ==
    /\ (pc = "create_tables" /\ failed_table' # NULL) =>
          /\ TablesBefore(failed_table') \subseteq tables'
          /\ tables \subseteq tables'
          /\ (tables' \ tables) \subseteq (TablesBefore(failed_table') \cup {failed_table'})
          /\ UNCHANGED <<fks, product_config, schema_migrations>>
    /\ failed_table # NULL =>
          UNCHANGED <<tables, fks, product_config, schema_migrations>>

\* C12: if creating any table fails, the run aborts at that table -- no later
\* table is created, no foreign key, seed product_config row or
\* schema_migrations row is written in that run, the success message is never
\* logged, the connection is closed, and the process exits with status 1.
C12_TableFailureAborts == []AbortedRunIsOver /\ [][AbortsAtFailedTable]_vars

\* the creation of ai_analysis failed in the first run: the three tables
\* before it exist and none after it, nothing else was written, and the run
\* ended with status 1
C12_Witness ==
    /\ failed_table = "ai_analysis"
    /\ tables = {"search_tasks", "channels", "channel_video_stats"}
    /\ fks = {} /\ product_config = {} /\ schema_migrations = {}
    /\ exit_status = "1" /\ ~connected /\ ~success_logged

----------------------------------------------------------------------------
(* The store's answer to the statements of its clients *)

\* every foreign key that exists accepts the rows
FKsAccept(tasks, chans, stats, analysis) ==
    \A f \in fks : FKHolds(f, tasks, chans, stats, analysis)

\* a slip in the ON DELETE rule: the referencing rows are left in place
Cascade_NoAction(f, rows, col, key) == rows

\* ON DELETE CASCADE of constraint f on column col: deleting the parent row
\* key deletes the rows that reference it.  Without the constraint the
\* store knows no relation between the rows, and they stay.
Cascade(f, rows, col, key) ==
    IF f \in fks THEN {r \in rows : r[col] # key} ELSE rows

\* a slip in the ON DELETE rule of fk_parent_task: CASCADE for SET NULL
SetNull_Cascade(f, rows, col, key) ==
    IF f \in fks THEN {r \in rows : r[col] # key} ELSE rows

\* ON DELETE SET NULL of fk_parent_task
SetNull(f, rows, col, key) ==
    IF f \in fks
    THEN {IF r[col] = key THEN [r EXCEPT ![col] = NULL] ELSE r : r \in rows}
    ELSE rows

\* INSERT INTO search_tasks (task_id, is_incremental, parent_task_id): status
\* takes its default; an incremental task is one created with a parent
NewTask(t, parent) ==
    [task_id |-> t, status |-> DefaultTaskStatus,
     is_incremental |-> (parent # NULL), parent_task_id |-> parent]

\* INSERT INTO channels (...): first_discovered_at = last_seen_at = at
NewChannel(c, at) ==
    [channel_id |-> c, first_discovered_at |-> at, last_seen_at |-> at]

\* INSERT INTO channel_video_stats (channel_id, task_id, recent_videos)
NewStats(id, c, t) == [id |-> id, channel_id |-> c, task_id |-> t]

\* INSERT INTO ai_analysis (channel_id, task_id, analysis_detail):
\* analysis_status takes its default, relevance_score is NULL
NewAnalysis(id, c, t) ==
    [id |-> id, channel_id |-> c, task_id |-> t,
     analysis_status |-> DefaultAnalysisStatus, relevance_score |-> 0]

\* DELETE FROM search_tasks WHERE task_id = t, with the rules of
\* fk_parent_task, fk_stats_task and fk_analysis_task
DeleteTask(t) ==
    /\ t \in TaskIds(search_tasks)
    /\ search_tasks' = SetNull("fk_parent_task",
                               {r \in search_tasks : r.task_id # t},
                               "parent_task_id", t)
    /\ channel_video_stats' = Cascade("fk_stats_task", channel_video_stats, "task_id", t)
    /\ ai_analysis' = Cascade("fk_analysis_task", ai_analysis, "task_id", t)
    /\ UNCHANGED <<channels, auto_inc, bootVars, smokeVars, api_keys, exhausted, now, today, proc, upserted>>

\* DELETE FROM channels WHERE channel_id = c, with the rules of
\* fk_stats_channel and fk_analysis_channel
DeleteChannel(c) ==
    /\ c \in ChannelIds(channels)
    /\ channels' = {r \in channels : r.channel_id # c}
    /\ channel_video_stats' = Cascade("fk_stats_channel", channel_video_stats, "channel_id", c)
    /\ ai_analysis' = Cascade("fk_analysis_channel", ai_analysis, "channel_id", c)
    /\ UNCHANGED <<search_tasks, auto_inc, bootVars, smokeVars, api_keys, exhausted,
                   now, today, proc, upserted>>

\* the Orchestrator creates a task, optionally as the child of another
CreateTask(t, parent) ==
    LET r == NewTask(t, parent) IN
    /\ parent # t
    /\ ~Duplicate_search_tasks(search_tasks, r)
    /\ FKsAccept(search_tasks \cup {r}, channels, channel_video_stats, ai_analysis)
    /\ search_tasks' = search_tasks \cup {r}
    /\ UNCHANGED <<channels, channel_video_stats, ai_analysis, auto_inc,
                   bootVars, smokeVars, api_keys, exhausted, now, today, proc, upserted>>

\* the first discovery of a channel: the INSERT of upsert_channel
InsertChannel(c) ==
    LET r == NewChannel(c, now) IN
    /\ ~Duplicate_channels(channels, r)
    /\ channels' = channels \cup {r}
    /\ UNCHANGED <<search_tasks, channel_video_stats, ai_analysis, auto_inc,
                   bootVars, smokeVars, api_keys, exhausted, now, today, proc, upserted>>

\* record_stats(channel_id, task_id, stats): one INSERT; a duplicate-key
\* error of the store is DuplicateSnapshot, and then nothing is inserted
RecordStats(c, t) ==
    LET r == NewStats(auto_inc["channel_video_stats"], c, t) IN
    /\ auto_inc["channel_video_stats"] <= MaxRowId
    /\ ~Duplicate_channel_video_stats(channel_video_stats, r)
    /\ FKsAccept(search_tasks, channels, channel_video_stats \cup {r}, ai_analysis)
    /\ channel_video_stats' = channel_video_stats \cup {r}
    /\ auto_inc' = [auto_inc EXCEPT !["channel_video_stats"] = @ + 1]
    /\ UNCHANGED <<search_tasks, channels, ai_analysis,
                   bootVars, smokeVars, api_keys, exhausted, now, today, proc, upserted>>

\* the INSERT of schedule(channel_id, task_id)
InsertAnalysis(c, t) ==
    LET r == NewAnalysis(auto_inc["ai_analysis"], c, t) IN
    /\ auto_inc["ai_analysis"] <= MaxRowId
    /\ ~Duplicate_ai_analysis(ai_analysis, r)
    /\ FKsAccept(search_tasks, channels, channel_video_stats, ai_analysis \cup {r})
    /\ ai_analysis' = ai_analysis \cup {r}
    /\ auto_inc' = [auto_inc EXCEPT !["ai_analysis"] = @ + 1]
    /\ UNCHANGED <<search_tasks, channels, channel_video_stats,
                   bootVars, smokeVars, api_keys, exhausted, now, today, proc, upserted>>

NextStore ==
    \/ \E t \in TaskIdSet, parent \in TaskIdSet \cup {NULL} : CreateTask(t, parent)
    \/ \E c \in ChannelIdSet : InsertChannel(c)
    \/ \E c \in ChannelIdSet, t \in TaskIdSet : RecordStats(c, t)
    \/ \E c \in ChannelIdSet, t \in TaskIdSet : InsertAnalysis(c, t)
    \/ \E t \in TaskIdSet : DeleteTask(t)
    \/ \E c \in ChannelIdSet : DeleteChannel(c)

\* the foreign keys a bootstrap run can leave: all of them, or, when ALTER
\* statements raised an Error that add_foreign_keys only logs, any fewer
BootstrapFKOutcomes == SUBSET AllFKs

\* the product_config rows a bootstrap run can leave: the seed row, or none
\* when the seed INSERT raised an Error that seed_initial_data only logs
BootstrapSeedOutcomes == {SeedInsert({}, 1), {}}

IdleProc ==
    [op |-> "idle", step |-> "done", channel_id |-> NULL, task_id |-> NULL,
     provider |-> NULL, key |-> NULL, at |-> 0, cost |-> 0, ret_id |-> 0,
     ret |-> NULL]

\* the store after one run of the bootstrap that logged success
InitBootstrapped ==
    /\ database = TRUE
    /\ tables = AllTables \cup {"schema_migrations"}
    /\ fks \in BootstrapFKOutcomes
    /\ product_config \in BootstrapSeedOutcomes
    /\ schema_migrations = MigrationsInsert({})
    /\ auto_inc = [t \in AutoIncTables |->
                     IF t = "product_config" THEN 1 + Cardinality(product_config)
                                             ELSE 1]
    /\ pc = "idle"
    /\ connected = FALSE
    /\ exit_status = "0"
    /\ success_logged = TRUE
    /\ runs = 1
    /\ sql_faults = (fks # AllFKs \/ product_config = {})
    /\ failed_table = NULL
    /\ now = 1
    /\ today = 1
    /\ proc = [p \in Procs |-> IdleProc]
    /\ upserted = [c \in ChannelIdSet |-> 0]
    /\ InitSmoke

\* ... in which no statement raised an Error
InitBootstrappedAll == InitBootstrapped /\ ~sql_faults

InitStore ==
    /\ InitBootstrapped
    /\ search_tasks = {}
    /\ channels = {}
    /\ channel_video_stats = {}
    /\ ai_analysis = {}
    /\ api_keys = {}
    /\ exhausted = {}

SpecStore == InitStore /\ [][NextStore]_vars

----------------------------------------------------------------------------
(* Channel Registry: upsert_channel, from tasks that run concurrently *)

Max(a, b) == IF a >= b THEN a ELSE b

\* last_seen_at advances to max(existing, now)
SeenAfterUpdate(existing, at) == Max(existing, at)

\* upsert_channel(data) is called by p: the caller reads the clock
UpsertCall(p, c) ==
    /\ proc[p].step = "done"
    /\ proc' = [proc EXCEPT ![p] = [IdleProc EXCEPT !.op = "upsert_channel",
                                     !.step = "insert", !.channel_id = c, !.at = now]]
    /\ UNCHANGED <<rowVars, auto_inc, bootVars, smokeVars, api_keys, exhausted, now, today, upserted>>

UpsertReturns(p) ==
    /\ proc' = [proc EXCEPT ![p].step = "done"]
    /\ upserted' = [upserted EXCEPT ![proc[p].channel_id] = Max(@, proc[p].at)]

\* the INSERT: on a uniqueness conflict the caller falls back to the UPDATE
UpsertInsert(p) ==
    LET r == NewChannel(proc[p].channel_id, proc[p].at) IN
    /\ proc[p].op = "upsert_channel" /\ proc[p].step = "insert"
    /\ IF Duplicate_channels(channels, r)
       THEN /\ proc' = [proc EXCEPT ![p].step = "update"]
            /\ UNCHANGED <<channels, upserted>>
       ELSE /\ channels' = channels \cup {r}
            /\ UpsertReturns(p)
    /\ UNCHANGED <<search_tasks, channel_video_stats, ai_analysis, auto_inc,
                   bootVars, smokeVars, api_keys, exhausted, now, today>>

\* the UPDATE ... WHERE channel_id = c
UpsertUpdate(p) ==
    /\ proc[p].op = "upsert_channel" /\ proc[p].step = "update"
    /\ channels' = {IF r.channel_id = proc[p].channel_id
                    THEN [r EXCEPT !.last_seen_at = SeenAfterUpdate(@, proc[p].at)]
                    ELSE r : r \in channels}
    /\ UpsertReturns(p)
    /\ UNCHANGED <<search_tasks, channel_video_stats, ai_analysis, auto_inc,
                   bootVars, smokeVars, api_keys, exhausted, now, today>>

\* time passes
Tick ==
    /\ now < MaxTime
    /\ now' = now + 1
    /\ UNCHANGED <<rowVars, auto_inc, bootVars, smokeVars, api_keys, exhausted, today, proc, upserted>>

NextUpsert ==
    \/ \E p \in Procs, c \in ChannelIdSet : UpsertCall(p, c)
    \/ \E p \in Procs : UpsertInsert(p)
    \/ \E p \in Procs : UpsertUpdate(p)
    \/ Tick

InitUpsert ==
    /\ InitBootstrappedAll
    /\ search_tasks = {}
    /\ channels = {}
    /\ channel_video_stats = {}
    /\ ai_analysis = {}
    /\ api_keys = {}
    /\ exhausted = {}

SpecUpsert == InitUpsert /\ [][NextUpsert]_vars

----------------------------------------------------------------------------
(* Analysis Coordinator: schedule and complete *)

Scores == 1..MaxScore

\* schedule(channel_id, task_id) is called by p
ScheduleCall(p, c, t) ==
    /\ proc[p].step = "done"
    /\ proc' = [proc EXCEPT ![p] = [IdleProc EXCEPT !.op = "schedule",
                                     !.step = "select", !.channel_id = c, !.task_id = t]]
    /\ UNCHANGED <<rowVars, auto_inc, bootVars, smokeVars, api_keys, exhausted, now, today, upserted>>

\* SELECT id FROM ai_analysis WHERE channel_id = c AND task_id = t: a row that
\* exists is returned unchanged
ScheduleSelect(p) ==
    LET found == {r \in ai_analysis : /\ r.channel_id = proc[p].channel_id
                                      /\ r.task_id = proc[p].task_id} IN
    /\ proc[p].op = "schedule" /\ proc[p].step \in {"select", "reselect"}
    /\ IF found = {}
       THEN proc' = [proc EXCEPT ![p].step = "insert"]
       ELSE \E r \in found :
               proc' = [proc EXCEPT ![p].step = "done", ![p].ret_id = r.id,
                                    ![p].ret = "scheduled"]
    /\ UNCHANGED <<rowVars, auto_inc, bootVars, smokeVars, api_keys, exhausted, now, today, upserted>>

\* the INSERT: it takes the next AUTO_INCREMENT id whether or not the store
\* accepts the row; on a uniqueness conflict the caller looks the winner up
ScheduleInsert(p) ==
    LET r == NewAnalysis(auto_inc["ai_analysis"], proc[p].channel_id, proc[p].task_id) IN
    /\ proc[p].op = "schedule" /\ proc[p].step = "insert"
    /\ auto_inc' = [auto_inc EXCEPT !["ai_analysis"] = @ + 1]
    /\ IF Duplicate_ai_analysis(ai_analysis, r)
       THEN /\ proc' = [proc EXCEPT ![p].step = "reselect"]
            /\ UNCHANGED ai_analysis
       ELSE /\ ai_analysis' = ai_analysis \cup {r}
            /\ proc' = [proc EXCEPT ![p].step = "done", ![p].ret_id = r.id,
                                    ![p].ret = "scheduled"]
    /\ UNCHANGED <<search_tasks, channels, channel_video_stats,
                   bootVars, smokeVars, api_keys, exhausted, now, today, upserted>>

\* the coordinator takes a pending analysis up
BeginAnalysis(id) ==
    /\ \E r \in ai_analysis : r.id = id /\ r.analysis_status = "pending"
    /\ ai_analysis' = {IF r.id = id THEN [r EXCEPT !.analysis_status = "processing"]
                                    ELSE r : r \in ai_analysis}
    /\ UNCHANGED <<search_tasks, channels, channel_video_stats, auto_inc,
                   bootVars, smokeVars, api_keys, exhausted, now, today, proc, upserted>>

\* complete(analysis_id, result) by p: valid only while the row is processing;
\* outcome is "completed" (with the score) or "failed"
Complete(p, id, outcome, score) ==
    /\ proc[p].step = "done"
    /\ \E r \in ai_analysis : r.id = id
    /\ LET row == CHOOSE r \in ai_analysis : r.id = id IN
       IF row.analysis_status = "processing"
       THEN /\ ai_analysis' =
                 (ai_analysis \ {row}) \cup
                 {[row EXCEPT !.analysis_status = outcome,
                              !.relevance_score = IF outcome = "completed"
                                                  THEN score ELSE 0]}
            /\ proc' = [proc EXCEPT ![p] = [IdleProc EXCEPT !.op = "complete",
                                             !.ret_id = id, !.ret = "ok"]]
       ELSE /\ UNCHANGED ai_analysis
            /\ proc' = [proc EXCEPT ![p] = [IdleProc EXCEPT !.op = "complete",
                                             !.ret_id = id, !.ret = "InvalidState"]]
    /\ UNCHANGED <<search_tasks, channels, channel_video_stats, auto_inc,
                   bootVars, smokeVars, api_keys, exhausted, now, today, upserted>>

AnalysisIds == {r.id : r \in ai_analysis}

NextAnalysis ==
    \/ \E p \in Procs, c \in ChannelIds(channels), t \in TaskIds(search_tasks) :
          ScheduleCall(p, c, t)
    \/ \E p \in Procs : ScheduleSelect(p)
    \/ \E p \in Procs : ScheduleInsert(p)
    \/ \E id \in AnalysisIds : BeginAnalysis(id)
    \/ \E p \in Procs, id \in AnalysisIds, score \in Scores :
          Complete(p, id, "completed", score)
    \/ \E p \in Procs, id \in AnalysisIds : Complete(p, id, "failed", 0)

\* a bootstrapped store with the channels discovered and one task created
InitAnalysis ==
    /\ InitBootstrappedAll
    /\ search_tasks = {NewTask("t1", NULL)}
    /\ channels = {NewChannel(c, 1) : c \in ChannelIdSet}
    /\ channel_video_stats = {}
    /\ ai_analysis = {}
    /\ api_keys = {}
    /\ exhausted = {}

SpecAnalysis == InitAnalysis /\ [][NextAnalysis]_vars

----------------------------------------------------------------------------
(* Search Task Orchestrator: the task lifecycle *)

Requests == {"start", "pause", "resume", "complete", "fail"}

\* the status a request leaves a task in: pending -> running ->
\* {completed, failed}, running -> paused, paused -> running; a start on a
\* running task changes nothing, and no request leaves completed or failed
TaskStatusAfter(status, request) ==
    CASE request = "start" /\ status = "pending" -> "running"
      [] request = "pause" /\ status = "running" -> "paused"
      [] request = "resume" /\ status = "paused" -> "running"
      [] request = "complete" /\ status = "running" -> "completed"
      [] request = "fail" /\ status = "running" -> "failed"
      [] OTHER -> status

\* what the caller is told: the state of the task after a request that was
\* carried out, or after a start that found it running; otherwise a refusal
TaskReply(status, request) ==
    IF TaskStatusAfter(status, request) # status \/
       (request = "start" /\ status = "running")
    THEN TaskStatusAfter(status, request)
    ELSE "InvalidTransition"

RequestTask(p, t, request) ==
    /\ t \in TaskIds(search_tasks)
    /\ LET row == CHOOSE r \in search_tasks : r.task_id = t IN
       /\ search_tasks' = (search_tasks \ {row}) \cup
                          {[row EXCEPT !.status = TaskStatusAfter(@, request)]}
       /\ proc' = [proc EXCEPT ![p] = [IdleProc EXCEPT !.op = request,
                                        !.task_id = t,
                                        !.ret = TaskReply(row.status, request)]]
    /\ UNCHANGED <<channels, channel_video_stats, ai_analysis, auto_inc,
                   bootVars, smokeVars, api_keys, exhausted, now, today, upserted>>

NextTasks ==
    \/ \E t \in TaskIdSet, parent \in TaskIdSet \cup {NULL} : CreateTask(t, parent)
    \/ \E p \in Procs, t \in TaskIdSet, request \in Requests : RequestTask(p, t, request)

SpecTasks == InitUpsert /\ [][NextTasks]_vars

----------------------------------------------------------------------------
(* Credential Pool: acquire and record_usage *)

KeySet == {"k1", "k2"}

Costs == 1..MaxCost

\* SQL NULL in the column last_reset_date DATE: the key was never reset.
\* The days are 1..MaxDay, and NULL is written as the number before them.
NoDate == 0

\* reset_if_new_day(key): used_quota is 0 again when last_reset_date is
\* earlier than the current date, or NULL
ResetIfNewDay(k) ==
    IF k.last_reset_date = NoDate \/ k.last_reset_date < today
    THEN [k EXCEPT !.used_quota = 0, !.last_reset_date = today]
    ELSE k

\* the keys after the lazy reset that acquire(provider) runs
KeysAfterReset(provider) ==
    {IF k.api_type = provider THEN ResetIfNewDay(k) ELSE k : k \in api_keys}

\* a key is marked exhausted for the remainder of its day: the lazy reset
\* that starts the key's next day takes the mark away
MarksAfterReset(provider) ==
    exhausted \ {k.api_key : k \in {x \in api_keys : /\ x.api_type = provider
                                                     /\ ResetIfNewDay(x) # x}}

\* the units that the callers in ps have reserved on key: the cost of the
\* call each of them acquired the key for and has not yet recorded
RECURSIVE Reserved(_, _)
Reserved(ps, key) ==
    IF ps = {} THEN 0
    ELSE LET p == CHOOSE x \in ps : TRUE IN
         (IF proc[p].step = "holding" /\ proc[p].key = key THEN proc[p].cost ELSE 0)
         + Reserved(ps \ {p}, key)

\* a slip in the selection: the cost of the call is not looked at
Eligible_NoCost(k, marks, provider, cost) ==
    /\ k.is_active /\ k.api_key \notin marks
    /\ k.api_type = provider
    /\ k.used_quota < k.daily_quota

\* the keys acquire(provider) may return for a call of `cost` units: the
\* active keys of the provider, not marked exhausted, whose used_quota is
\* below daily_quota and leaves room for the call beside the calls that
\* concurrent callers have acquired the key for
Eligible(k, marks, provider, cost) ==
    /\ k.is_active /\ k.api_key \notin marks
    /\ k.api_type = provider
    /\ k.used_quota < k.daily_quota
    /\ k.used_quota + Reserved(Procs, k.api_key) + cost <= k.daily_quota

\* among the eligible keys: the highest priority, then the lowest used_quota
Selectable(keys, marks, provider, cost) ==
    {k \in keys :
        /\ Eligible(k, marks, provider, cost)
        /\ \A x \in keys : Eligible(x, marks, provider, cost) =>
              \/ x.priority < k.priority
              \/ (x.priority = k.priority /\ x.used_quota >= k.used_quota)}

\* acquire(provider) by p, for a call of `cost` units: one transaction that
\* resets, checks, selects and reserves the cost on the key it returns
Acquire(p, provider, cost) ==
    /\ proc[p].step = "done"
    /\ api_keys' = KeysAfterReset(provider)
    /\ exhausted' = MarksAfterReset(provider)
    /\ LET sel == Selectable(KeysAfterReset(provider), MarksAfterReset(provider),
                             provider, cost)
           call == [IdleProc EXCEPT !.op = "acquire", !.provider = provider,
                                    !.cost = cost]
       IN IF sel = {}
          THEN proc' = [proc EXCEPT ![p] = [call EXCEPT !.ret = "QuotaExhausted"]]
          ELSE \E k \in sel :
                  proc' = [proc EXCEPT ![p] = [call EXCEPT !.step = "holding",
                                                           !.key = k.api_key,
                                                           !.ret = "Key"]]
    /\ UNCHANGED <<rowVars, auto_inc, bootVars, smokeVars, now, today, upserted>>

\* a slip in record_usage: the key that went over its quota is not marked
ExhaustedAfter_Unmarked(k) == exhausted

\* the marks after used_quota of row k was incremented: a key pushed over
\* its daily_quota is marked exhausted
ExhaustedAfter(k) ==
    IF k.used_quota > k.daily_quota THEN exhausted \cup {k.api_key} ELSE exhausted

\* record_usage(key, units) by the caller p that holds the key, for the call
\* it has made, which the provider charged `units` for: one atomic
\* increment-then-check.  The call's result is accepted also when the
\* increment pushes the key over its quota.
RecordUsage(p, units) ==
    /\ proc[p].op = "acquire" /\ proc[p].step = "holding"
    /\ LET k == CHOOSE x \in api_keys : x.api_key = proc[p].key
           after == [k EXCEPT !.used_quota = @ + units]
       IN /\ api_keys' = (api_keys \ {k}) \cup {after}
          /\ exhausted' = ExhaustedAfter(after)
    /\ proc' = [proc EXCEPT ![p] = [IdleProc EXCEPT !.op = "record_usage",
                                                    !.ret = "accepted"]]
    /\ UNCHANGED <<rowVars, auto_inc, bootVars, smokeVars, now, today, upserted>>

\* an operator deactivates a key
Deactivate(key) ==
    /\ \E k \in api_keys : k.api_key = key /\ k.is_active
    /\ api_keys' = {IF k.api_key = key THEN [k EXCEPT !.is_active = FALSE]
                                       ELSE k : k \in api_keys}
    /\ UNCHANGED <<rowVars, auto_inc, bootVars, smokeVars, exhausted, now, today,
                   proc, upserted>>

\* midnight
NewDay ==
    /\ today < MaxDay
    /\ today' = today + 1
    /\ UNCHANGED <<rowVars, auto_inc, bootVars, smokeVars, api_keys, exhausted,
                   now, proc, upserted>>

NextQuota ==
    \/ \E p \in Procs, cost \in Costs : Acquire(p, "youtube", cost)
    \/ \E p \in Procs, units \in Costs : RecordUsage(p, units)
    \/ \E key \in KeySet : Deactivate(key)
    \/ NewDay

\* INSERT INTO api_keys (api_key, api_type, daily_quota, priority):
\* used_quota and is_active take their defaults (0 and 1), and
\* last_reset_date, which has none, is NULL
NewKey(key, type, quota, priority) ==
    [api_key |-> key, api_type |-> type, daily_quota |-> quota,
     used_quota |-> 0, last_reset_date |-> NoDate, is_active |-> TRUE,
     priority |-> priority]

\* a bootstrapped store to which an operator has added a YouTube key and a
\* second key, of YouTube or of an AI provider, of the same or of a lower
\* priority; no single call exceeds a whole day's quota of a key
InitQuota ==
    /\ InitBootstrappedAll
    /\ search_tasks = {}
    /\ channels = {}
    /\ channel_video_stats = {}
    /\ ai_analysis = {}
    /\ \E pr \in {0, 1}, type \in {"youtube", "deepseek"} :
          api_keys = {NewKey("k1", "youtube", MaxCost + 1, 1),
                      NewKey("k2", type, MaxCost, pr)}
    /\ exhausted = {}

SpecQuota == InitQuota /\ [][NextQuota]_vars

----------------------------------------------------------------------------
(* Claims about the rows of the store *)

StatsOf(c, t) == {r \in channel_video_stats : r.channel_id = c /\ r.task_id = t}
AnalysisOf(c, t) == {r \in ai_analysis : r.channel_id = c /\ r.task_id = t}

\* C2: in every reachable state there is at most one channel_video_stats row
\* per (channel_id, task_id) pair: the store refuses the insert of a second
\* row for a pair (record_stats then fails with DuplicateSnapshot).
C2_OneSnapshotPerPair ==
    \A c \in ChannelIdSet, t \in TaskIdSet : Cardinality(StatsOf(c, t)) <= 1

\* every row of rows references, in column col, a key of keys
References(rows, col, keys) == \A r \in rows : r[col] \in keys

ReferentialIntegrity ==
    /\ "fk_stats_channel" \in fks =>
          References(channel_video_stats, "channel_id", ChannelIds(channels))
    /\ "fk_stats_task" \in fks =>
          References(channel_video_stats, "task_id", TaskIds(search_tasks))
    /\ "fk_analysis_channel" \in fks =>
          References(ai_analysis, "channel_id", ChannelIds(channels))
    /\ "fk_analysis_task" \in fks =>
          References(ai_analysis, "task_id", TaskIds(search_tasks))

\* the step deletes the channel c / the task t
ChannelDeleted(c) == c \in ChannelIds(channels) /\ c \notin ChannelIds(channels')
TaskDeleted(t) == t \in TaskIds(search_tasks) /\ t \notin TaskIds(search_tasks')

\* the rows of rows that do not reference key in column col are the same
\* before and after the step
OthersKept(rows, rowsAfter, col, key) ==
    {r \in rows : r[col] # key} = {r \in rowsAfter : r[col] # key}

DeletesCascade ==
    /\ \A c \in ChannelIdSet : ChannelDeleted(c) =>
          /\ "fk_stats_channel" \in fks =>
                ~\E r \in channel_video_stats' : r.channel_id = c
          /\ "fk_analysis_channel" \in fks =>
                ~\E r \in ai_analysis' : r.channel_id = c
          /\ OthersKept(channel_video_stats, channel_video_stats', "channel_id", c)
          /\ OthersKept(ai_analysis, ai_analysis', "channel_id", c)
    /\ \A t \in TaskIdSet : TaskDeleted(t) =>
          /\ "fk_stats_task" \in fks =>
                ~\E r \in channel_video_stats' : r.task_id = t
          /\ "fk_analysis_task" \in fks =>
                ~\E r \in ai_analysis' : r.task_id = t
          /\ OthersKept(channel_video_stats, channel_video_stats', "task_id", t)
          /\ OthersKept(ai_analysis, ai_analysis', "task_id", t)

\* C5 for the constraints that exist: every channel_video_stats row and
\* every ai_analysis row references, through each foreign key the bootstrap
\* has added, an existing row; deleting a channel (or a task) deletes the
\* rows that reference it through such a key, and no row that references
\* another channel (task).
C5_ReferentialIntegrity == []ReferentialIntegrity /\ [][DeletesCascade]_vars

\* a channel that had a stats row and an analysis row was deleted, both rows
\* went with it, and the rows of the other channel are still there
C5_Witness ==
    /\ fks = AllFKs
    /\ auto_inc["channel_video_stats"] = 3 /\ Cardinality(channel_video_stats) = 1
    /\ auto_inc["ai_analysis"] = 3 /\ Cardinality(ai_analysis) = 1
    /\ Cardinality(channels) = 1
    /\ Cardinality(search_tasks) = 2

IntegrityAfterBootstrap ==
    /\ References(channel_video_stats, "channel_id", ChannelIds(channels))
    /\ References(channel_video_stats, "task_id", TaskIds(search_tasks))
    /\ References(ai_analysis, "channel_id", ChannelIds(channels))
    /\ References(ai_analysis, "task_id", TaskIds(search_tasks))

DeletesDependents ==
    /\ \A c \in ChannelIdSet : ChannelDeleted(c) =>
          /\ ~\E r \in channel_video_stats' : r.channel_id = c
          /\ ~\E r \in ai_analysis' : r.channel_id = c
          /\ OthersKept(channel_video_stats, channel_video_stats', "channel_id", c)
          /\ OthersKept(ai_analysis, ai_analysis', "channel_id", c)
    /\ \A t \in TaskIdSet : TaskDeleted(t) =>
          /\ ~\E r \in channel_video_stats' : r.task_id = t
          /\ ~\E r \in ai_analysis' : r.task_id = t
          /\ OthersKept(channel_video_stats, channel_video_stats', "task_id", t)
          /\ OthersKept(ai_analysis, ai_analysis', "task_id", t)

\* C5: referential integrity is an invariant of the store after a bootstrap
\* that logged success -- every channel_video_stats row and every ai_analysis
\* row references an existing channels row and an existing search_tasks row;
\* deleting a channel (or a task) deletes all stats and analysis rows that
\* reference it, and no row that references another channel (task).
C5_IntegrityAfterBootstrap ==
    [](success_logged => IntegrityAfterBootstrap) /\ [][DeletesDependents]_vars

\* C6 for a store in which fk_parent_task exists: deleting a task that is
\* the parent of other tasks sets parent_task_id to null on each child,
\* leaves every other attribute of the children and every stats and analysis
\* row of the children unchanged, and deletes no child.
ParentDeletionNulls ==
    \A t \in TaskIdSet : (TaskDeleted(t) /\ "fk_parent_task" \in fks) =>
        /\ \A r \in search_tasks : r.task_id # t =>
              (IF r.parent_task_id = t
               THEN [r EXCEPT !.parent_task_id = NULL] ELSE r) \in search_tasks'
        /\ Cardinality(search_tasks') = Cardinality(search_tasks) - 1
        /\ OthersKept(channel_video_stats, channel_video_stats', "task_id", t)
        /\ OthersKept(ai_analysis, ai_analysis', "task_id", t)

C6_ParentDeletionNulls == [][ParentDeletionNulls]_vars

ParentDeletionNullsChildren ==
    \A t \in TaskIdSet : TaskDeleted(t) =>
        /\ \A r \in search_tasks : r.task_id # t =>
              (IF r.parent_task_id = t
               THEN [r EXCEPT !.parent_task_id = NULL] ELSE r) \in search_tasks'
        /\ Cardinality(search_tasks') = Cardinality(search_tasks) - 1
        /\ OthersKept(channel_video_stats, channel_video_stats', "task_id", t)
        /\ OthersKept(ai_analysis, ai_analysis', "task_id", t)

\* C6: deleting a task that is the parent of other tasks sets
\* parent_task_id to null on each child, leaves every other attribute of the
\* children and every stats and analysis row of the children unchanged, and
\* deletes no child.
C6_ParentDeletionNullsChildren == [][ParentDeletionNullsChildren]_vars

\* a task created as the child of another has lost its parent: the parent
\* was deleted, the child is still there with its stats and analysis rows
C6_Witness ==
    /\ "fk_parent_task" \in fks
    /\ \E r \in search_tasks :
          /\ r.is_incremental /\ r.parent_task_id = NULL
          /\ \E x \in channel_video_stats : x.task_id = r.task_id
          /\ \E x \in ai_analysis : x.task_id = r.task_id

----------------------------------------------------------------------------
(* Claims about upsert_channel *)

ChannelRows(c) == {r \in channels : r.channel_id = c}

UpsertInFlight(c) ==
    \E p \in Procs : /\ proc[p].op = "upsert_channel"
                     /\ proc[p].step # "done"
                     /\ proc[p].channel_id = c

OneRowLatestSeen ==
    \A c \in ChannelIdSet :
        /\ Cardinality(ChannelRows(c)) <= 1
        /\ upserted[c] > 0 => Cardinality(ChannelRows(c)) = 1
        /\ \A r \in ChannelRows(c) :
              /\ r.last_seen_at >= r.first_discovered_at
              /\ r.last_seen_at >= upserted[c]
              /\ ~UpsertInFlight(c) => r.last_seen_at = upserted[c]

LastSeenNeverDecreases ==
    \A r \in channels : \A x \in channels' :
        x.channel_id = r.channel_id => x.last_seen_at >= r.last_seen_at

\* C4: after any interleaving of upsert_channel calls of concurrent tasks the
\* channels table holds exactly one row per upserted channel_id, its
\* last_seen_at is the latest discovery time among the upserts (it advances
\* to max(existing, now) and never decreases), and it is not before
\* first_discovered_at.
C4_UpsertOneRow == []OneRowLatestSeen /\ [][LastSeenNeverDecreases]_vars

\* two tasks have upserted the same channel; the one that read the clock
\* later inserted the row, and the earlier one then merged into it
C4_Witness ==
    \E p \in Procs, q \in Procs :
        /\ proc[p].op = "upsert_channel" /\ proc[p].step = "done"
        /\ proc[q].op = "upsert_channel" /\ proc[q].step = "done"
        /\ proc[p].channel_id = proc[q].channel_id
        /\ proc[p].at < proc[q].at
        /\ \E r \in ChannelRows(proc[p].channel_id) :
              r.first_discovered_at = proc[q].at /\ r.last_seen_at = proc[q].at

----------------------------------------------------------------------------
(* Claims about the Analysis Coordinator *)

ScheduleDone(p, c, t) ==
    /\ proc[p].op = "schedule" /\ proc[p].step = "done"
    /\ proc[p].channel_id = c /\ proc[p].task_id = t

\* C3: two schedule(channel_id, task_id) calls for the same pair, in any
\* interleaving, leave exactly one ai_analysis row for the pair, and both
\* callers return the id of that row.
C3_ScheduleConverges ==
    \A c \in ChannelIdSet, t \in TaskIdSet :
        /\ Cardinality(AnalysisOf(c, t)) <= 1
        /\ \A p \in Procs : ScheduleDone(p, c, t) =>
              /\ Cardinality(AnalysisOf(c, t)) = 1
              /\ \A r \in AnalysisOf(c, t) : proc[p].ret_id = r.id

\* both callers have returned for the same pair, and one of them lost the
\* race: its INSERT took an id and was refused
C3_Witness ==
    \E c \in ChannelIdSet, t \in TaskIdSet :
        /\ \A p \in Procs : ScheduleDone(p, c, t)
        /\ Cardinality(ai_analysis) = 1
        /\ auto_inc["ai_analysis"] = 3

RowById(rows, id) == CHOOSE r \in rows : r.id = id

AnalysisEdges ==
    {<<"pending", "processing">>, <<"processing", "completed">>,
     <<"processing", "failed">>}

AnalysisLifecycle ==
    /\ \A x \in ai_analysis' : x.analysis_status \in AnalysisStatus
    /\ \A x \in ai_analysis' :
          IF x.id \in AnalysisIds
          THEN LET r == RowById(ai_analysis, x.id) IN
               \/ x = r
               \/ /\ <<r.analysis_status, x.analysis_status>> \in AnalysisEdges
                  /\ x.channel_id = r.channel_id /\ x.task_id = r.task_id
          ELSE x.analysis_status = "pending"
    /\ \A r \in ai_analysis : r.analysis_status = "completed" => r \in ai_analysis'

\* C10: an ai_analysis row is created in status pending and moves
\* pending -> processing -> {completed, failed}; complete is accepted only
\* while the row is processing, and no later schedule or complete call
\* changes the status or the result of a completed row.
C10_AnalysisLifecycle == [][AnalysisLifecycle]_vars

\* a complete call on a completed row was refused, and the row still holds
\* its score
C10_Witness ==
    \E p \in Procs :
        /\ proc[p].op = "complete" /\ proc[p].ret = "InvalidState"
        /\ \E r \in ai_analysis : /\ r.id = proc[p].ret_id
                                  /\ r.analysis_status = "completed"
                                  /\ r.relevance_score \in Scores

----------------------------------------------------------------------------
(* Claims about the task lifecycle *)

TaskEdges ==
    {<<"pending", "running">>, <<"running", "completed">>,
     <<"running", "failed">>, <<"running", "paused">>, <<"paused", "running">>}

\* p's request of this step
Requested(p, request, t) ==
    proc'[p] # proc[p] /\ proc'[p].op = request /\ proc'[p].task_id = t

TaskLifecycle ==
    /\ \A x \in search_tasks' : x.status \in TaskStatus
    /\ \A x \in search_tasks' :
          IF x.task_id \in TaskIds(search_tasks)
          THEN LET r == CHOOSE r \in search_tasks : r.task_id = x.task_id IN
               \/ x.status = r.status
               \/ <<r.status, x.status>> \in TaskEdges
          ELSE x.status = "pending"
    /\ \A r \in search_tasks : r.status \in {"completed", "failed"} =>
          \E x \in search_tasks' : x.task_id = r.task_id /\ x.status = r.status
    /\ \A p \in Procs : \A r \in search_tasks :
          (Requested(p, "start", r.task_id) /\ r.status = "running") =>
              search_tasks' = search_tasks /\ proc'[p].ret = "running"

\* C7: a task is created in status pending and its status changes only
\* along pending -> running, running -> completed, running -> failed,
\* running -> paused and paused -> running; a completed or failed task keeps
\* its status, and a start request on a running task changes nothing and
\* returns the current state.
C7_TaskLifecycle == [][TaskLifecycle]_vars

\* two start requests on the same task have both answered "running": a task
\* leaves pending once, so one of them found it running; and another task
\* has reached a terminal status
C7_Witness ==
    /\ \A p \in Procs : /\ proc[p].op = "start" /\ proc[p].ret = "running"
                        /\ proc[p].task_id = "t1"
    /\ \E r \in search_tasks : r.task_id = "t2" /\ r.status \in {"completed", "failed"}

----------------------------------------------------------------------------
(* Claims about the credential pool *)

KeyRow(keys, key) == CHOOSE k \in keys : k.api_key = key

\* acquire returns a key to p in this step
Acquired(p) == proc'[p] # proc[p] /\ proc'[p].op = "acquire" /\ proc'[p].step = "holding"

\* acquire answers p with QuotaExhausted in this step
Refused(p) == proc'[p] # proc[p] /\ proc'[p].ret = "QuotaExhausted"

\* the key has room for a call of `cost` units beside the calls concurrent
\* callers hold it for
HasRoom(k, cost) ==
    k.used_quota + Reserved(Procs, k.api_key) + cost <= k.daily_quota

AcquireWithinCost ==
    \A p \in Procs :
        /\ Acquired(p) =>
              LET k == KeyRow(api_keys', proc'[p].key) IN
              /\ k = ResetIfNewDay(KeyRow(api_keys, proc'[p].key))
              /\ k.is_active /\ k.api_type = proc'[p].provider
              /\ k.api_key \notin exhausted'
              /\ k.last_reset_date = today
              /\ k.used_quota + proc'[p].cost <= k.daily_quota
        /\ Refused(p) =>
              ~\E k \in api_keys' :
                  /\ k.is_active /\ k.api_type = proc'[p].provider
                  /\ k.api_key \notin exhausted'
                  /\ HasRoom(k, proc'[p].cost)

ActiveToday(k) ==
    k.is_active /\ k.last_reset_date = today /\ k.api_key \notin exhausted

----------------------------------------------------------------------------
(* test_apis.py: the test functions, as functions of what the services     *)
(* answer                                                                  *)

\* the four endpoints of the YouTube client that test_youtube_api calls
Endpoints == {"search", "channels", "playlistItems", "videos"}

\* what the execute() of a request does: it returns a response with items or
\* with none, or raises HttpError whose content is the JSON error document
\* of the API, or HttpError whose content is not such a document (not JSON,
\* or JSON of another shape), or raises another exception
Answers == {"items", "empty", "HttpError", "HttpErrorMalformed", "Exception"}

\* what build('youtube', 'v3', developerKey=api_key) does
BuildAnswers == {"ok", "HttpError", "HttpErrorMalformed", "Exception"}

\* the answers of the service to one call of test_youtube_api;
\* contentDetails: the item of the channels response has a contentDetails
\* part (the request asks for part='snippet,statistics')
YouTubeAnswers ==
    [build : BuildAnswers, search : Answers, channels : Answers,
     contentDetails : BOOLEAN, playlistItems : Answers, videos : Answers]

Raises(a) == a \in {"HttpError", "HttpErrorMalformed", "Exception"}

\* the except clauses of test_youtube_api.  except HttpError: the handler
\* runs json.loads(e.content) and error_details.get('error', {}).get(...)
\* and then returns False; an exception of these two lines is raised inside
\* the handler, where the except Exception clause that follows does not
\* apply, so it leaves the function.  except Exception: returns False.
Handled(a, called, items) ==
    [ret |-> IF a = "HttpErrorMalformed" THEN "raised" ELSE "False",
     called |-> called, items |-> items]

\* test_youtube_api: ret is what it returns ("raised": an exception leaves
\* it), called the endpoints it called, items those that returned items
test_youtube_api(r) ==
    IF Raises(r.build) THEN Handled(r.build, {}, {})
    ELSE IF Raises(r.search) THEN Handled(r.search, {"search"}, {})
    ELSE
      LET found == r.search = "items"
          called2 == IF found THEN {"search", "channels"} ELSE {"search"}
          items1 == IF found THEN {"search"} ELSE {}
      IN
      IF found /\ Raises(r.channels) THEN Handled(r.channels, called2, items1)
      ELSE
        LET \* the local variable channel is assigned
            bound == found /\ r.channels = "items"
            items2 == items1 \cup (IF bound THEN {"channels"} ELSE {})
        IN
        \* channel['contentDetails']: UnboundLocalError if channel was not
        \* assigned, KeyError if the item has no such part; except Exception
        IF ~bound \/ ~r.contentDetails
        THEN [ret |-> "False", called |-> called2, items |-> items2]
        ELSE
          LET called3 == called2 \cup {"playlistItems"} IN
          IF Raises(r.playlistItems) THEN Handled(r.playlistItems, called3, items2)
          ELSE
            LET listed == r.playlistItems = "items"
                called4 == called3 \cup (IF listed THEN {"videos"} ELSE {})
                items3 == items2 \cup (IF listed THEN {"playlistItems"} ELSE {})
            IN
            IF listed /\ Raises(r.videos) THEN Handled(r.videos, called4, items3)
            ELSE [ret |-> "True", called |-> called4,
                  items |-> items3 \cup (IF listed /\ r.videos = "items"
                                         THEN {"videos"} ELSE {})]

\* what requests.post(...) does: a response with status 200 and the JSON
\* body of a completion, status 200 and another body, another status, or a
\* Timeout, another RequestException, another exception
AIAnswers == {"200", "200_malformed", "status", "Timeout", "RequestException",
              "Exception"}

\* test_deepseek_api: True only on status 200 with a body from which
\* result['choices'][0]['message']['content'] can be read
test_deepseek_api(a) == a = "200"

\* test_zhipu_api: the same code against the other service
test_zhipu_api(a) == a = "200"

\* what the langdetect library does: detect() finds every language, or takes
\* a text for another language, or the import fails, or detect() raises
LanguageAnswers == {"detected", "mistaken", "ImportError", "Exception"}

\* test_language_detection: a mistaken language is only a warning
test_language_detection(a) == a \in {"detected", "mistaken"}

----------------------------------------------------------------------------
(* main of test_apis.py, one step per test *)

\* the value of an option: absent (None), the empty string, a key
KeyValues == {NULL, "", "key"}

\* --ai-provider: absent, or one of its choices
Providers == {NULL, "deepseek", "zhipu"}

ArgsSet == [youtube_key : KeyValues, ai_provider : Providers,
            ai_key : KeyValues, all : BOOLEAN]

\* Python's truth value of an option
Truthy(x) == x \notin {NULL, ""}

\* results[k] = v
Store(d, k, v) == [x \in DOMAIN d \cup {k} |-> IF x = k THEN v ELSE d[x]]

storeVars == <<bootVars, auto_inc, rowVars, api_keys, exhausted, now, today, proc, upserted>>

\* what parser.parse_args() does with the command line: it returns the
\* arguments, or prints the help and exits with status 0 (--help), or
\* rejects the command line and exits with status 2 (a provider that is not
\* one of the choices, an option without its value, an unknown argument)
SmokeCommandLines == {"ok", "help", "rejected"}

\* parser.parse_args(); results = {}.  When parse_args exits, main ends
\* there ("usage"): no results dict, no test
ParseArgs(line, a) ==
    /\ smoke_pc = "start"
    /\ IF line = "ok"
       THEN /\ args' = a
            /\ results' = <<>>
            /\ smoke_pc' = "youtube"
            /\ UNCHANGED smoke_exit
       ELSE /\ smoke_pc' = "usage"
            /\ smoke_exit' = IF line = "help" THEN "0" ELSE "2"
            /\ UNCHANGED <<args, results>>
    /\ UNCHANGED <<youtube, escaped, storeVars>>

\* if args.youtube_key: results['youtube'] = test_youtube_api(...).  main
\* has no handler: an exception that leaves the test ends the process with
\* a traceback and status 1
TestYouTube(r) ==
    /\ smoke_pc = "youtube"
    /\ IF Truthy(args.youtube_key)
       THEN LET y == test_youtube_api(r) IN
            /\ youtube' = y
            /\ IF y.ret = "raised"
               THEN /\ escaped' = "test_youtube_api"
                    /\ smoke_exit' = "1"
                    /\ smoke_pc' = "exited"
                    /\ UNCHANGED results
               ELSE /\ results' = Store(results, "youtube", y.ret = "True")
                    /\ smoke_pc' = "ai"
                    /\ UNCHANGED <<escaped, smoke_exit>>
       ELSE /\ smoke_pc' = "ai"
            /\ UNCHANGED <<youtube, results, escaped, smoke_exit>>
    /\ UNCHANGED <<args, storeVars>>

\* if args.ai_provider and args.ai_key: results['ai'] = the provider's test
TestAI(a) ==
    /\ smoke_pc = "ai"
    /\ IF Truthy(args.ai_provider) /\ Truthy(args.ai_key)
       THEN results' = Store(results, "ai",
                             IF args.ai_provider = "deepseek"
                             THEN test_deepseek_api(a) ELSE test_zhipu_api(a))
       ELSE UNCHANGED results
    /\ smoke_pc' = "language_detection"
    /\ UNCHANGED <<args, youtube, smoke_exit, escaped, storeVars>>

\* results['language_detection'] = test_language_detection()
TestLanguage(a) ==
    /\ smoke_pc = "language_detection"
    /\ results' = Store(results, "language_detection", test_language_detection(a))
    /\ smoke_pc' = "summary"
    /\ UNCHANGED <<args, youtube, smoke_exit, escaped, storeVars>>

\* all_passed = all(results.values()); sys.exit(0) or sys.exit(1)
Summary ==
    /\ smoke_pc = "summary"
    /\ smoke_exit' = IF \A k \in DOMAIN results : results[k] THEN "0" ELSE "1"
    /\ smoke_pc' = "exited"
    /\ UNCHANGED <<args, results, youtube, escaped, storeVars>>

NextSmoke ==
    \/ \E line \in SmokeCommandLines, a \in ArgsSet : ParseArgs(line, a)
    \/ \E r \in YouTubeAnswers : TestYouTube(r)
    \/ \E a \in AIAnswers : TestAI(a)
    \/ \E a \in LanguageAnswers : TestLanguage(a)
    \/ Summary

SpecSmoke == InitFresh /\ [][NextSmoke]_vars

----------------------------------------------------------------------------
(* Claims about test_apis.py *)

\* C13: test_youtube_api returns True only if each of the four endpoints
\* (search, channels, playlistItems, videos) was called and returned at least
\* one item; in every other case it returns False without raising.
C13_TrueOnlyIfAllEndpoints ==
    /\ youtube.ret = "True" =>
          (youtube.called = Endpoints /\ youtube.items = Endpoints)
    /\ youtube.ret # "raised"

\* the tests that main ran: the keys of the results dict
Ran(test) == test \in DOMAIN results

\* C14: main, once parse_args has accepted the command line, always runs
\* the language-detection test, runs the YouTube test iff a YouTube key is
\* given and the AI test iff both provider and key are given, and exits with
\* status 0 if and only if every test that was run returned True (status 1
\* otherwise); no test function lets an exception escape to main.
C14_SmokeMain ==
    smoke_pc = "exited" =>
        /\ Ran("language_detection")
        /\ Ran("youtube") <=> Truthy(args.youtube_key)
        /\ Ran("ai") <=> (Truthy(args.ai_provider) /\ Truthy(args.ai_key))
        /\ smoke_exit = "0" <=> (\A k \in DOMAIN results : results[k])
        /\ smoke_exit \in {"0", "1"}
        /\ escaped = NULL

====
